---- MODULE Spec2Model ----
(***************************************************************************)
(* A model of the cache-aside fetch-and-normalize pipeline of the movie    *)
(* recommendation API: the catalog query views of movies/views.py, the     *)
(* upstream client and the record normalizer of movies/utils.py, the Movie *)
(* table of movies/models.py and the response cache; and the user         *)
(* registration of users/views.py.                                         *)
(*                                                                         *)
(* JSON values are tagged records: [null |-> TRUE], [num |-> n],           *)
(* [str |-> <<chars>>], [list |-> <<values>>], [obj |-> record].  A Python *)
(* string is a sequence of one-character strings, so slicing, stripping,   *)
(* parsing and concatenation are computed and not assumed.                 *)
(***************************************************************************)
EXTENDS Integers, Sequences, FiniteSets, TLC

VARIABLES
    cache,      \* the response cache: key -> [payload, timeout, fresh]
    store,      \* the Movie table: a sequence of rows in insertion order
    req,        \* one record per request slot: position, inputs, locals, response
    scn,        \* the scenario of the behaviour: the query class requested, the
                \* request slots in use, the request parameters sent and what
                \* upstream results are made of
    users,      \* the usernames of the User table
    profiles,   \* the UserProfile table: username -> favourite movies
    reg,        \* the registration request in progress
    fav         \* one record per request slot: a favourite toggle's position,
                \* inputs, locals and response

vars == <<cache, store, req, scn, users, profiles, reg, fav>>

----------------------------------------------------------------------------
(* Bounds of the model *)

MaxItems == 2       \* longest upstream result list

----------------------------------------------------------------------------
(* JSON values and the Python operations the code applies to them *)

JNull == [null |-> TRUE]
JNum(n) == [num |-> n]
JStr(s) == [str |-> s]
JList(l) == [list |-> l]
JObj(o) == [obj |-> o]
JBool(b) == [bool |-> b]

IsNull(v) == "null" \in DOMAIN v
IsNum(v) == "num" \in DOMAIN v
IsStr(v) == "str" \in DOMAIN v
IsList(v) == "list" \in DOMAIN v
IsObj(v) == "obj" \in DOMAIN v
IsBool(v) == "bool" \in DOMAIN v

\* bool(v)
Truthy(v) ==
    CASE IsNull(v) -> FALSE
      [] IsNum(v) -> v.num /= 0
      [] IsStr(v) -> Len(v.str) > 0
      [] IsList(v) -> Len(v.list) > 0
      [] IsObj(v) -> DOMAIN v.obj /= {}
      [] IsBool(v) -> v.bool

\* d.get(k), with None when the key is missing
DictGet(d, k) == IF k \in DOMAIN d.obj THEN d.obj[k] ELSE JNull

\* d.get(k, default)
DictGetDefault(d, k, default) == IF k \in DOMAIN d.obj THEN d.obj[k] ELSE default

\* a or b
PyOr(a, b) == IF Truthy(a) THEN a ELSE b

Min(a, b) == IF a <= b THEN a ELSE b

IsDigit(c) == c \in {"0", "1", "2", "3", "4", "5", "6", "7", "8", "9"}

DigitVal(c) ==
    CASE c = "0" -> 0 [] c = "1" -> 1 [] c = "2" -> 2 [] c = "3" -> 3
      [] c = "4" -> 4 [] c = "5" -> 5 [] c = "6" -> 6 [] c = "7" -> 7
      [] c = "8" -> 8 [] c = "9" -> 9

AllDigits(s) == Len(s) > 0 /\ \A i \in 1..Len(s) : IsDigit(s[i])

RECURSIVE DigitsVal(_)
DigitsVal(s) ==
    IF Len(s) = 0 THEN 0
    ELSE 10 * DigitsVal(SubSeq(s, 1, Len(s) - 1)) + DigitVal(s[Len(s)])

\* s.strip(): leading and trailing blanks removed
RECURSIVE LStrip(_)
LStrip(s) == IF Len(s) > 0 /\ s[1] = " " THEN LStrip(Tail(s)) ELSE s

RECURSIVE RStrip(_)
RStrip(s) ==
    IF Len(s) > 0 /\ s[Len(s)] = " " THEN RStrip(SubSeq(s, 1, Len(s) - 1)) ELSE s

Strip(s) == RStrip(LStrip(s))

----------------------------------------------------------------------------
(* datetime.strptime(s, '%Y-%m-%d').date(): ValueError is [ok |-> FALSE] *)

DashAt(s) == {i \in 1..Len(s) : s[i] = "-"}

IsLeap(y) == (y % 4 = 0 /\ y % 100 /= 0) \/ y % 400 = 0

DaysIn(y, m) ==
    CASE m \in {1, 3, 5, 7, 8, 10, 12} -> 31
      [] m \in {4, 6, 9, 11} -> 30
      [] m = 2 -> IF IsLeap(y) THEN 29 ELSE 28

NoDate == [ok |-> FALSE]

strptime(s) ==
    IF Cardinality(DashAt(s)) /= 2 THEN NoDate
    ELSE
        LET i == CHOOSE a \in DashAt(s) : \A b \in DashAt(s) : a <= b
            j == CHOOSE a \in DashAt(s) : \A b \in DashAt(s) : a >= b
            ys == SubSeq(s, 1, i - 1)
            ms == SubSeq(s, i + 1, j - 1)
            ds == SubSeq(s, j + 1, Len(s))
        IN  IF ~(AllDigits(ys) /\ AllDigits(ms) /\ AllDigits(ds)) THEN NoDate
            ELSE IF Len(ys) /= 4 \/ Len(ms) > 2 \/ Len(ds) > 2 THEN NoDate
            ELSE
                LET y == DigitsVal(ys)
                    m == DigitsVal(ms)
                    d == DigitsVal(ds)
                IN  IF y >= 1 /\ m \in 1..12 /\ d >= 1 /\ d <= DaysIn(y, m)
                    THEN [ok |-> TRUE, y |-> y, m |-> m, d |-> d]
                    ELSE NoDate

----------------------------------------------------------------------------
(* float(v) and int(v) as the vote fields use them.  JSON numbers of the   *)
(* model are integers; a float is kept in tenths, so float("7.5") is 75    *)
(* and float(7) is 70.  A numeric string is digits, optionally followed by *)
(* a point and one digit.                                                  *)

PointAt(s) == {i \in 1..Len(s) : s[i] = "."}

IsIntLiteral(s) == AllDigits(Strip(s))

IsFloatLiteral(s) ==
    LET t == Strip(s)
    IN  \/ AllDigits(t)
        \/ /\ Len(t) >= 3
           /\ PointAt(t) = {Len(t) - 1}
           /\ AllDigits(SubSeq(t, 1, Len(t) - 2))
           /\ IsDigit(t[Len(t)])

FloatLiteralVal(s) ==
    LET t == Strip(s)
    IN  IF AllDigits(t) THEN 10 * DigitsVal(t)
        ELSE 10 * DigitsVal(SubSeq(t, 1, Len(t) - 2)) + DigitVal(t[Len(t)])

\* vote_average: float(v) if v is not None else 0.0, 0.0 on TypeError/ValueError
coerce_vote_average(v) ==
    CASE IsNull(v) -> 0
      [] IsNum(v) -> 10 * v.num
      [] IsStr(v) -> IF IsFloatLiteral(v.str) THEN FloatLiteralVal(v.str) ELSE 0
      [] OTHER -> 0

\* vote_count: int(v) if v is not None else 0, 0 on TypeError/ValueError
coerce_vote_count(v) ==
    CASE IsNull(v) -> 0
      [] IsNum(v) -> v.num
      [] IsStr(v) -> IF IsIntLiteral(v.str) THEN DigitsVal(Strip(v.str)) ELSE 0
      [] OTHER -> 0

----------------------------------------------------------------------------
(* get_or_create_movie: the part before the ORM call.  The outcome is      *)
(*   [tag |-> "none"]   the function returns (None, False);                *)
(*   [tag |-> "raise"]  an exception leaves the function: the except       *)
(*                      clauses format tmdb_data.get('title', ...) and     *)
(*                      that raises again when tmdb_data is not a dict;    *)
(*   [tag |-> "lookup", tmdb_id, defaults]  Movie.objects.get_or_create is *)
(*                      called with these arguments.                       *)

UnknownTitle == <<"U", "n", "k", "n", "o", "w", "n", " ", "T", "i", "t", "l", "e">>

MaxTitleLen == 255

IdChars == <<"i", "d">>

IsInfix(p, s) ==
    \E i \in 0..(Len(s) - Len(p)) : SubSeq(s, i + 1, i + Len(p)) = p

\* 'id' in tmdb_data, for a value where the test does not raise
HasIdKey(v) ==
    CASE IsObj(v) -> "id" \in DOMAIN v.obj
      [] IsList(v) -> \E i \in 1..Len(v.list) : v.list[i] = JStr(IdChars)
      [] IsStr(v) -> IsInfix(IdChars, v.str)

\* title = tmdb_data.get('title') or tmdb_data.get('original_title', 'Unknown Title')
resolve_title(d) ==
    PyOr(DictGet(d, "title"), DictGetDefault(d, "original_title", JStr(UnknownTitle)))

\* as resolve_release_date, with the strptime call outside the inner try
resolve_release_date_strict(d) ==
    LET rds == DictGet(d, "release_date")
    IN  IF ~Truthy(rds) THEN [raises |-> FALSE, date |-> NoDate]
        ELSE IF ~IsStr(rds) THEN [raises |-> TRUE, date |-> NoDate]
        ELSE IF Len(Strip(rds.str)) = 0 THEN [raises |-> FALSE, date |-> NoDate]
        ELSE [raises |-> ~strptime(rds.str).ok, date |-> strptime(rds.str)]

\* release_date: [raises, date]; .strip() on a truthy non-string raises
resolve_release_date(d) ==
    LET rds == DictGet(d, "release_date")
    IN  IF ~Truthy(rds) THEN [raises |-> FALSE, date |-> NoDate]
        ELSE IF ~IsStr(rds) THEN [raises |-> TRUE, date |-> NoDate]
        ELSE IF Len(Strip(rds.str)) = 0 THEN [raises |-> FALSE, date |-> NoDate]
        ELSE [raises |-> FALSE, date |-> strptime(rds.str)]

\* [genre['name'] for genre in genres if isinstance(genre, dict) and 'name' in genre]
RECURSIVE genre_names(_)
genre_names(l) ==
    IF Len(l) = 0 THEN <<>>
    ELSE LET g == l[1]
         IN  (IF IsObj(g) /\ "name" \in DOMAIN g.obj THEN <<g.obj["name"]>> ELSE <<>>)
             \o genre_names(Tail(l))

\* as resolve_genres, with the two branches in the other order
resolve_genres_ids_first(d) ==
    IF "genre_ids" \in DOMAIN d.obj /\ Truthy(d.obj["genre_ids"])
    THEN [raises |-> FALSE, value |-> d.obj["genre_ids"]]
    ELSE IF "genres" \in DOMAIN d.obj /\ Truthy(d.obj["genres"])
    THEN LET g == d.obj["genres"]
         IN  CASE IsList(g) -> [raises |-> FALSE, value |-> JList(genre_names(g.list))]
               [] IsNum(g) -> [raises |-> TRUE, value |-> JList(<<>>)]
               [] OTHER -> [raises |-> FALSE, value |-> JList(<<>>)]
    ELSE [raises |-> FALSE, value |-> JList(<<>>)]

\* genres: [raises, value]; iterating a number raises, a string or a dict
\* yields no dict element
resolve_genres(d) ==
    IF "genres" \in DOMAIN d.obj /\ Truthy(d.obj["genres"])
    THEN LET g == d.obj["genres"]
         IN  CASE IsList(g) -> [raises |-> FALSE, value |-> JList(genre_names(g.list))]
               [] IsNum(g) -> [raises |-> TRUE, value |-> JList(<<>>)]
               [] OTHER -> [raises |-> FALSE, value |-> JList(<<>>)]
    ELSE IF "genre_ids" \in DOMAIN d.obj /\ Truthy(d.obj["genre_ids"])
    THEN [raises |-> FALSE, value |-> d.obj["genre_ids"]]
    ELSE [raises |-> FALSE, value |-> JList(<<>>)]

\* tmdb_id as IntegerField prepares it for the lookup: [ok, n]
prepare_tmdb_id(v) ==
    CASE IsNum(v) -> [ok |-> TRUE, n |-> v.num]
      [] IsStr(v) -> IF IsIntLiteral(v.str)
                     THEN [ok |-> TRUE, n |-> DigitsVal(Strip(v.str))]
                     ELSE [ok |-> FALSE]
      [] OTHER -> [ok |-> FALSE]

normalize_movie(tmdb_data) ==
    IF ~Truthy(tmdb_data) THEN [tag |-> "none"]
    ELSE IF IsNum(tmdb_data) THEN [tag |-> "raise"]
    ELSE IF ~HasIdKey(tmdb_data) THEN [tag |-> "none"]
    ELSE IF ~IsObj(tmdb_data) THEN [tag |-> "raise"]
    ELSE
        LET title == resolve_title(tmdb_data)
            rd == resolve_release_date(tmdb_data)
            genres == resolve_genres(tmdb_data)
            id == prepare_tmdb_id(tmdb_data.obj["id"])
        IN  IF rd.raises \/ genres.raises \/ ~IsStr(title) \/ ~id.ok
            THEN [tag |-> "none"]
            ELSE [tag |-> "lookup",
                  tmdb_id |-> id.n,
                  defaults |->
                    [title |-> SubSeq(title.str, 1, Min(Len(title.str), MaxTitleLen)),
                     overview |-> DictGetDefault(tmdb_data, "overview", JStr(<<>>)),
                     release_date |-> rd.date,
                     poster_path |-> DictGet(tmdb_data, "poster_path"),
                     backdrop_path |-> DictGet(tmdb_data, "backdrop_path"),
                     vote_average |->
                        coerce_vote_average(DictGetDefault(tmdb_data, "vote_average", JNum(0))),
                     vote_count |->
                        coerce_vote_count(DictGetDefault(tmdb_data, "vote_count", JNum(0))),
                     genres |-> genres.value]]

----------------------------------------------------------------------------
(* The Movie table and Movie.objects.get_or_create *)

\* as unique_violation, for a tmdb_id column declared without unique=True
no_unique_constraint(st, tmdb_id) == FALSE

\* tmdb_id = models.IntegerField(unique=True): would one more row with this
\* tmdb_id break the constraint
unique_violation(st, tmdb_id) == \E i \in 1..Len(st) : st[i].tmdb_id = tmdb_id

Matching(st, tmdb_id) == {i \in 1..Len(st) : st[i].tmdb_id = tmdb_id}

\* as found_row, for update_or_create: the row found takes the defaults
update_found_row(st, i, defaults) ==
    [st EXCEPT ![i] = [pk |-> st[i].pk, tmdb_id |-> st[i].tmdb_id] @@ defaults]

\* the table after get_or_create found row i: the defaults are for a new
\* row only, the row found is returned as it is
found_row(st, i, defaults) == st

\* the row an INSERT adds: the primary key is the next one of the table
NewRow(st, tmdb_id, defaults) == [pk |-> Len(st) + 1, tmdb_id |-> tmdb_id] @@ defaults

DigitChar(n) ==
    CASE n = 0 -> "0" [] n = 1 -> "1" [] n = 2 -> "2" [] n = 3 -> "3"
      [] n = 4 -> "4" [] n = 5 -> "5" [] n = 6 -> "6" [] n = 7 -> "7"
      [] n = 8 -> "8" [] n = 9 -> "9"

\* str(n) for n >= 0
RECURSIVE IntChars(_)
IntChars(n) == IF n < 10 THEN <<DigitChar(n)>> ELSE IntChars(n \div 10) \o <<DigitChar(n % 10)>>

\* n as decimal digits, zero-padded to the width
RECURSIVE Pad(_, _)
Pad(n, width) == IF width = 0 THEN <<>> ELSE Pad(n \div 10, width - 1) \o <<DigitChar(n % 10)>>

\* DateField as the serializer renders it: ISO text, None when absent
isoformat(date) ==
    IF date.ok
    THEN JStr(Pad(date.y, 4) \o <<"-">> \o Pad(date.m, 2) \o <<"-">> \o Pad(date.d, 2))
    ELSE JNull

\* MovieSerializer(movie).data.  full_poster_url and full_backdrop_url are
\* read-only fields naming attributes the model does not have, which the
\* serializer skips; created_at and updated_at are not modelled.
MovieSerializer(row) ==
    JObj([id |-> JNum(row.pk),
          tmdb_id |-> JNum(row.tmdb_id),
          title |-> JStr(row.title),
          overview |-> row.overview,
          release_date |-> isoformat(row.release_date),
          poster_path |-> row.poster_path,
          backdrop_path |-> row.backdrop_path,
          vote_average |-> JNum(row.vote_average),
          vote_count |-> JNum(row.vote_count),
          genres |-> row.genres])

PosterBase == <<"https://image.tmdb.org/t/p/w500">>
BackdropBase == <<"https://image.tmdb.org/t/p/w1280">>

\* Movie.poster_url
poster_url(row) ==
    IF Truthy(row.poster_path) THEN JStr(PosterBase \o row.poster_path.str) ELSE JNull

\* Movie.backdrop_url
backdrop_url(row) ==
    IF Truthy(row.backdrop_path) THEN JStr(BackdropBase \o row.backdrop_path.str) ELSE JNull

\* getattr(movie, name): [ok, value]; a name that is neither a property nor
\* a field of Movie raises AttributeError
getattr(row, name) ==
    CASE name = "poster_url" -> [ok |-> TRUE, value |-> poster_url(row)]
      [] name = "backdrop_url" -> [ok |-> TRUE, value |-> backdrop_url(row)]
      [] name \in {"poster_path", "backdrop_path", "overview", "genres"} ->
            [ok |-> TRUE, value |-> row[name]]
      [] OTHER -> [ok |-> FALSE, value |-> JNull]

----------------------------------------------------------------------------
(* The upstream provider: what one call of fetch_movies_from_tmdb can meet *)

ListClasses == {"trending", "popular", "top_rated", "upcoming", "search", "similar"}
Classes == ListClasses \cup {"details", "credits"}

FetchFailures ==
    {"Timeout", "HTTPError", "ConnectionError", "RequestException", "JSONDecodeError"}

ValidDate == <<"2", "0", "2", "4", "-", "0", "5", "-", "0", "1">>
InvalidDate == <<"2", "0", "2", "4", "-", "1", "3", "-", "4", "0">>

ItemA(id) ==
    JObj([id |-> JNum(id),
          title |-> JStr(<<"A">>),
          original_title |-> JStr(<<"A", "o">>),
          overview |-> JStr(<<"o">>),
          release_date |-> JStr(ValidDate),
          poster_path |-> JStr(<<"/", "a">>),
          vote_average |-> JNum(7),
          vote_count |-> JNum(10),
          genre_ids |-> JList(<<JNum(28), JNum(12)>>)])

ItemB(id) ==
    JObj([id |-> JNum(id),
          original_title |-> JStr(<<"B">>),
          release_date |-> JStr(InvalidDate),
          poster_path |-> JNull,
          vote_average |-> JStr(<<"8", ".", "5">>),
          vote_count |-> JStr(<<"n">>),
          genres |-> JList(<<JObj([id |-> JNum(28), name |-> JStr(<<"G">>)])>>)])

\* an item of the id and a title only
ItemPlain(id) == JObj([id |-> JNum(id), title |-> JStr(<<"P">>)])

ItemNoId == JObj([title |-> JStr(<<"C">>)])

ItemNumber == JNum(7)

\* the items a behaviour's upstream results are made of: one external id
\* described twice and two kinds of unusable item, or two external ids
Catalogues ==
    {{ItemA(1), ItemB(1), ItemNoId, ItemNumber}, {ItemA(1), ItemA(2)}}

ItemSeqs(items, n) == UNION {[1..k -> items] : k \in 0..n}

ResultsBody(items) ==
    IF Len(items) = 0
    THEN JObj([results |-> JList(items)])
    ELSE JObj([results |-> JList(items),
               total_results |-> JNum(Len(items)),
               total_pages |-> JNum(1)])

MovieIds == {1, 2}

NoResultsBody == JObj([status_message |-> JStr(<<"m">>)])
EmptyObject == JObj(<<>>)
NumberBody == JNum(5)
CreditsBody == JObj([id |-> JNum(1), cast |-> JList(<<JObj([name |-> JStr(<<"N">>)])>>)])

\* the decoded bodies a successful call can deliver, by query class
Bodies(cls, items, n) ==
    CASE cls \in ListClasses ->
            {NoResultsBody, EmptyObject, NumberBody}
                \cup {ResultsBody(l) : l \in ItemSeqs(items, n)}
      [] cls = "details" -> {EmptyObject, NumberBody} \cup {ItemA(id) : id \in MovieIds}
      [] cls = "credits" -> {EmptyObject, CreditsBody}

UpstreamOutcomes(cls, items, n) ==
    [kind : FetchFailures, body : {JNull}] \cup [kind : {"ok"}, body : Bodies(cls, items, n)]

\* as fetch_movies_from_tmdb, but a timeout yields an empty result page
fetch_empty_page_on_timeout(outcome) ==
    IF outcome.kind = "Timeout" THEN ResultsBody(<<>>)
    ELSE IF outcome.kind \in FetchFailures THEN JNull ELSE outcome.body

\* fetch_movies_from_tmdb: every except clause returns None
fetch_movies_from_tmdb(outcome) ==
    IF outcome.kind \in FetchFailures THEN JNull ELSE outcome.body

----------------------------------------------------------------------------
(* Requests *)

Queries == {<<>>, <<"a">>}
Pages == {JNum(1), JStr(<<"2">>), JStr(<<"x">>)}   \* page absent is the int 1

NoParams == [q |-> <<>>, page |-> JNum(1), movie_id |-> 0]

Inputs(cls) ==
    CASE cls = "search" -> [q : Queries, page : Pages, movie_id : {0}]
      [] cls \in {"details", "credits", "similar"} ->
            [q : {<<>>}, page : {JNum(1)}, movie_id : MovieIds]
      [] OTHER -> {NoParams}

\* as missing_query, for a search view without the check of the query
any_query(cls, in) == FALSE

\* search_movies: if not query
missing_query(cls, in) == cls = "search" /\ Len(in.q) = 0

\* str(v) inside an f-string
PyStr(v) == IF IsNum(v) THEN IntChars(v.num) ELSE v.str

\* int(page): [ok, n]
int_page(page) ==
    CASE IsNum(page) -> [ok |-> TRUE, n |-> page.num]
      [] IsStr(page) -> IF IsIntLiteral(page.str)
                        THEN [ok |-> TRUE, n |-> DigitsVal(Strip(page.str))]
                        ELSE [ok |-> FALSE]

cache_key(cls, in) ==
    CASE cls = "trending" -> <<"trending_movies">>
      [] cls = "popular" -> <<"popular_movies">>
      [] cls = "top_rated" -> <<"top_rated_movies">>
      [] cls = "upcoming" -> <<"upcoming_movies">>
      [] cls = "search" -> <<"movie_search_">> \o in.q \o <<"_page_">> \o PyStr(in.page)
      [] cls = "details" -> <<"movie_details_">> \o IntChars(in.movie_id)
      [] cls = "credits" -> <<"movie_credits_">> \o IntChars(in.movie_id)
      [] cls = "similar" -> <<"similar_movies_">> \o IntChars(in.movie_id)

\* as cache_timeout, for cache.set called without a timeout: the default
cache_timeout_default(cls) == 300

cache_timeout(cls) ==
    CASE cls \in {"trending", "popular", "top_rated", "upcoming"} -> 3600
      [] cls = "search" -> 1800
      [] cls = "details" -> 86400
      [] cls = "credits" -> 43200
      [] cls = "similar" -> 21600

----------------------------------------------------------------------------
(* One request: its position in the view, its locals and its response.     *)
(* upstream, hit, calls, sets and made record what the request did: made   *)
(* has, for each item get_or_create_movie returned a movie for, the        *)
(* created flag and whether the INSERT lost a race (raced).                *)

Idle ==
    [pc |-> "idle", cls |-> "", in |-> NoParams, key |-> <<>>,
     upstream |-> "", data |-> JNull, idx |-> 0, movies_data |-> <<>>,
     processed_count |-> 0, failed_count |-> 0, pending |-> [tag |-> "none"],
     payload |-> JNull, status |-> 0, body |-> JNull,
     hit |-> FALSE, calls |-> 0, sets |-> 0, made |-> <<>>]

ErrorBody(msg) == JObj([error |-> JStr(<<msg>>)])

Respond(r, status, body) == [r EXCEPT !.pc = "done", !.status = status, !.body = body]

Results(r) == r.data.obj["results"].list

\* 'results' in data, for a truthy data where the test does not raise
HasResults(data) == IsObj(data) /\ "results" \in DOMAIN data.obj

\* the paginated response_data of the list views
response_data(r) ==
    [results |-> JList(r.movies_data),
     total_results |-> DictGetDefault(r.data, "total_results", JNum(0)),
     total_pages |-> DictGetDefault(r.data, "total_pages", JNum(1))]

\* as all_failed, for a trending view without the check of movies_data
never_all_failed(r) == FALSE

\* get_trending_movies: if not movies_data
all_failed(r) == Len(r.movies_data) = 0

\* the code after the item loop, up to the cache write
after_loop(r) ==
    CASE r.cls = "trending" ->
            IF all_failed(r)
            THEN Respond(r, 500, ErrorBody("Movie processing failed"))
            ELSE [r EXCEPT !.pc = "set",
                           !.payload = JList(r.movies_data),
                           !.body = JObj([results |-> JList(r.movies_data),
                                          metadata |->
                                            JObj([total_processed |-> JNum(r.processed_count),
                                                  total_failed |-> JNum(r.failed_count),
                                                  source |-> JStr(<<"TMDb API">>),
                                                  cached |-> JBool(FALSE)])])]
      [] r.cls = "search" ->
            IF int_page(r.in.page).ok
            THEN LET rd == JObj(response_data(r) @@
                                [current_page |-> JNum(int_page(r.in.page).n),
                                 query |-> JStr(r.in.q)])
                 IN  [r EXCEPT !.pc = "set", !.payload = rd, !.body = rd]
            ELSE Respond(r, 500, ErrorBody("Internal server error"))
      [] OTHER ->
            LET rd == JObj(response_data(r))
            IN  [r EXCEPT !.pc = "set", !.payload = rd, !.body = rd]

\* the next iteration of the loop over data['results'], or the code after it
next_item(r) == IF r.idx > Len(Results(r)) THEN after_loop(r) ELSE r

\* one item is done: get_or_create_movie returned (row, created), or
\* (None, False) when found is false
item_done(r, found, row, created, raced) ==
    LET trending == r.cls = "trending"
    IN  next_item([r EXCEPT
            !.pc = "items",
            !.idx = @ + 1,
            !.pending = [tag |-> "none"],
            !.movies_data = IF found THEN Append(@, MovieSerializer(row)) ELSE @,
            !.made = IF found THEN Append(@, [created |-> created, raced |-> raced]) ELSE @,
            !.processed_count = IF found /\ trending THEN @ + 1 ELSE @,
            !.failed_count = IF ~found /\ trending THEN @ + 1 ELSE @])

\* as upstream_unavailable, for a view that waits for upstream to be back
wait_for_upstream(r) == [r EXCEPT !.pc = "wait"]

\* as upstream_unavailable, for a view that calls upstream once more
retry_fetch(r) == [r EXCEPT !.pc = "fetch"]

\* the 503 response of a view whose upstream call gave nothing usable
upstream_unavailable(r) == Respond(r, 503, ErrorBody("upstream unavailable"))

\* as opaque_payload, for a view that keeps only the cast of the body
cast_only_payload(r) ==
    LET kept == IF IsObj(r.data) /\ "cast" \in DOMAIN r.data.obj
                THEN JObj([cast |-> r.data.obj["cast"]])
                ELSE r.data
    IN  [r EXCEPT !.pc = "set", !.payload = kept, !.body = kept]

\* details and credits: the decoded body is cached and returned as it is
opaque_payload(r) == [r EXCEPT !.pc = "set", !.payload = r.data, !.body = r.data]

\* the code between the upstream call and the first item, by view
after_fetch(r) ==
    LET unavailable == upstream_unavailable(r)
        internal == Respond(r, 500, ErrorBody("Internal server error"))
        loop == next_item([r EXCEPT !.pc = "items", !.idx = 1])
        raw == opaque_payload(r)
    IN  CASE r.cls \in {"details", "credits"} ->
                IF ~Truthy(r.data) THEN unavailable ELSE raw
          [] r.cls = "trending" ->
                IF ~Truthy(r.data) THEN unavailable
                ELSE IF IsNum(r.data) THEN internal
                ELSE IF ~HasResults(r.data) THEN unavailable
                ELSE IF ~Truthy(r.data.obj["results"])
                     THEN Respond(r, 404, ErrorBody("No trending movies available"))
                ELSE loop
          [] OTHER ->
                IF ~Truthy(r.data) THEN unavailable
                ELSE IF IsNum(r.data) THEN internal
                ELSE IF ~HasResults(r.data) THEN unavailable
                ELSE loop

----------------------------------------------------------------------------
(* The response cache.  An entry keeps, beside the payload and the timeout *)
(* it was set with, the body its writer answered with (first_response).    *)
(* LocMemCache keeps an entry whose timeout has passed until the key is    *)
(* next used and answers a lookup of it with the default, None: an entry   *)
(* is marked expired (Expire) or is expired and dropped at once            *)
(* (TimePasses).                                                           *)

\* as cache_get, for a cache that has no entry at all
cache_get_nothing(c, key) == JNull

\* as cache_get, for a cache that does not look at the expiry of an entry
cache_get_stale(c, key) == IF key \in DOMAIN c THEN c[key].payload ELSE JNull

cache_get(c, key) ==
    IF key \in DOMAIN c /\ ~c[key].expired THEN c[key].payload ELSE JNull

\* as cache_set, for cache.add: an entry that is there stays
cache_add(c, key, payload, timeout, body) ==
    IF key \in DOMAIN c /\ ~c[key].expired THEN c
    ELSE (key :> [payload |-> payload, timeout |-> timeout, first_response |-> body,
                  expired |-> FALSE]) @@ c

cache_set(c, key, payload, timeout, body) ==
    (key :> [payload |-> payload, timeout |-> timeout, first_response |-> body,
             expired |-> FALSE]) @@ c

Slots == {1, 2}

\* the scenarios of a specification: every query class, with the request
\* parameters of the class, over each of the catalogues
Scenarios(slots, catalogues, n) ==
    {[cls |-> c, slots |-> slots, items |-> i, n |-> n, inputs |-> Inputs(c)] :
        c \in Classes, i \in catalogues}

----------------------------------------------------------------------------
(* User accounts: the User table, the UserProfile table and register_user. *)
(* A user is its username; a profile is its user's set of favourites.      *)

UserNames == {"u1", "u2", "u3"}

\* request.data of a registration: "" is a missing username
RegistrationData == [username : UserNames \cup {""}]

NoRegistration == [pc |-> "idle", username |-> "", status |-> 0]

\* a slot with no favourite toggle in it
NoToggle ==
    [pc |-> "idle", user |-> "", movie_id |-> 0, member |-> FALSE,
     action |-> "", status |-> 0, order |-> 0, before |-> FALSE]

NoAccounts ==
    /\ users = {}
    /\ profiles = <<>>
    /\ reg = NoRegistration
    /\ fav = [s \in Slots |-> NoToggle]

\* serializer.is_valid(): the username is given and no user has it
is_valid(data, us) == data.username /= "" /\ data.username \notin us

\* register_user up to serializer.is_valid()
ValidateRegistration ==
    /\ reg.pc = "idle"
    /\ \E data \in RegistrationData :
        reg' = IF is_valid(data, users)
               THEN [pc |-> "valid", username |-> data.username, status |-> 0]
               ELSE [pc |-> "done", username |-> data.username, status |-> 400]
    /\ UNCHANGED <<cache, store, req, scn, users, profiles, fav>>

\* serializer.save(): User.objects.create_user; the username is unique
SaveUser ==
    /\ reg.pc = "valid"
    /\ IF reg.username \in users
       THEN /\ reg' = [reg EXCEPT !.pc = "done", !.status = 500]
            /\ UNCHANGED users
       ELSE /\ reg' = [reg EXCEPT !.pc = "saved"]
            /\ users' = users \cup {reg.username}
    /\ UNCHANGED <<cache, store, req, scn, profiles, fav>>

\* UserProfile.objects.create(user=user) and the 201 response
CreateProfile ==
    /\ reg.pc = "saved"
    /\ IF reg.username \in DOMAIN profiles
       THEN /\ reg' = [reg EXCEPT !.pc = "done", !.status = 500]
            /\ UNCHANGED profiles
       ELSE /\ reg' = [reg EXCEPT !.pc = "done", !.status = 201]
            /\ profiles' = (reg.username :> {}) @@ profiles
    /\ UNCHANGED <<cache, store, req, scn, users, fav>>

\* the response is delivered
RegistrationDone ==
    /\ reg.pc = "done"
    /\ reg' = NoRegistration
    /\ UNCHANGED <<cache, store, req, scn, users, profiles, fav>>

\* User.objects.create_user called directly, as the tests, the admin site
\* and createsuperuser do: no receiver of post_save is connected, so
\* nothing else happens
create_user(username) ==
    /\ username \notin users
    /\ users' = users \cup {username}
    /\ UNCHANGED <<cache, store, req, scn, profiles, reg, fav>>

InitUsers ==
    /\ cache = <<>>
    /\ store = <<>>
    /\ req = [s \in Slots |-> Idle]
    /\ scn = [cls |-> "", slots |-> {}, items |-> {}, n |-> 0, inputs |-> {}]
    /\ NoAccounts

NextUsers ==
    \/ ValidateRegistration
    \/ SaveUser
    \/ CreateProfile
    \/ RegistrationDone
    \/ \E username \in UserNames : create_user(username)

SpecUsers == InitUsers /\ [][NextUsers]_vars

----------------------------------------------------------------------------

Init ==
    /\ cache = <<>>
    /\ store = <<>>
    /\ req = [s \in Slots |-> Idle]
    /\ scn \in Scenarios({1}, Catalogues, MaxItems)
    /\ NoAccounts

----------------------------------------------------------------------------
(* The steps of a view.  A step runs the view's code up to and including   *)
(* its next access to the cache, the upstream provider or the Movie table. *)

\* a request arrives: parameter check (search) and cache.get
CheckCache(s) ==
    /\ s \in scn.slots
    /\ req[s].pc = "idle"
    /\ \E in \in scn.inputs :
        LET r == [Idle EXCEPT !.cls = scn.cls, !.in = in, !.key = cache_key(scn.cls, in)]
            cached_data == cache_get(cache, r.key)
        IN  req' = [req EXCEPT ![s] =
                IF missing_query(r.cls, in)
                THEN Respond([r EXCEPT !.key = <<>>], 400, ErrorBody("Query parameter is required"))
                ELSE IF Truthy(cached_data)
                THEN Respond([r EXCEPT !.hit = TRUE], 200, cached_data)
                ELSE [r EXCEPT !.pc = "fetch"]]
    /\ UNCHANGED <<cache, store, scn, users, profiles, reg, fav>>

\* the upstream call and the checks of its result
Fetch(s) ==
    /\ req[s].pc = "fetch"
    /\ \E outcome \in UpstreamOutcomes(req[s].cls, scn.items, scn.n) :
        req' = [req EXCEPT ![s] =
            after_fetch([req[s] EXCEPT !.upstream = outcome.kind,
                                       !.calls = @ + 1,
                                       !.data = fetch_movies_from_tmdb(outcome)])]
    /\ UNCHANGED <<cache, store, scn, users, profiles, reg, fav>>

\* the request after get_or_create_movie(item) came to outcome n without
\* an INSERT, the table being st: rows are the rows of the id
after_lookup(r, n, st, rows) ==
    LET one == CHOOSE i \in rows : TRUE
    IN  CASE n.tag = "none" -> item_done(r, FALSE, <<>>, FALSE, FALSE)
          [] n.tag = "raise" ->
                IF r.cls = "trending" THEN item_done(r, FALSE, <<>>, FALSE, FALSE)
                ELSE Respond(r, 500, ErrorBody("Internal server error"))
          [] n.tag = "lookup" ->
                IF rows = {} THEN [r EXCEPT !.pc = "create", !.pending = n]
                ELSE IF Cardinality(rows) = 1
                THEN item_done(r, TRUE, st[one], FALSE, FALSE)
                ELSE item_done(r, FALSE, <<>>, FALSE, FALSE)

\* get_or_create_movie on the next item, up to the SELECT of get_or_create
GetMovie(s) ==
    /\ req[s].pc = "items"
    /\ \E n \in {normalize_movie(Results(req[s])[req[s].idx])} :
       \E rows \in {IF n.tag = "lookup" THEN Matching(store, n.tmdb_id) ELSE {}} :
       \E st \in {IF Cardinality(rows) = 1
                   THEN found_row(store, CHOOSE i \in rows : TRUE, n.defaults)
                   ELSE store} :
       \E r \in {after_lookup(req[s], n, st, rows)} :
            /\ store' = st
            /\ req' = [req EXCEPT ![s] = r]
    /\ UNCHANGED <<cache, scn, users, profiles, reg, fav>>

\* the INSERT of get_or_create; on IntegrityError the row is fetched again
CreateMovie(s) ==
    /\ req[s].pc = "create"
    /\ LET r == req[s]
           n == r.pending
           rows == Matching(store, n.tmdb_id)
           row == NewRow(store, n.tmdb_id, n.defaults)
       IN  IF unique_violation(store, n.tmdb_id)
           THEN /\ req' = [req EXCEPT ![s] =
                        IF Cardinality(rows) = 1
                        THEN item_done(r, TRUE, store[CHOOSE i \in rows : TRUE], FALSE, TRUE)
                        ELSE item_done(r, FALSE, <<>>, FALSE, FALSE)]
                /\ UNCHANGED store
           ELSE /\ store' = Append(store, row)
                /\ req' = [req EXCEPT ![s] = item_done(r, TRUE, row, TRUE, FALSE)]
    /\ UNCHANGED <<cache, scn, users, profiles, reg, fav>>

\* cache.set and the successful response
SetCache(s) ==
    /\ req[s].pc = "set"
    /\ LET r == req[s]
       IN  /\ cache' = cache_set(cache, r.key, r.payload, cache_timeout(r.cls), r.body)
           /\ req' = [req EXCEPT ![s] = Respond([r EXCEPT !.sets = @ + 1], 200, r.body)]
    /\ UNCHANGED <<store, scn, users, profiles, reg, fav>>

\* the response is delivered and the slot is free for the next request
Deliver(s) ==
    /\ req[s].pc = "done"
    /\ req' = [req EXCEPT ![s] = Idle]
    /\ UNCHANGED <<cache, store, scn, users, profiles, reg, fav>>

\* the timeout of an entry passes and the entry is dropped
TimePasses(key) ==
    /\ key \in DOMAIN cache
    /\ cache' = [k \in DOMAIN cache \ {key} |-> cache[k]]
    /\ UNCHANGED <<store, req, scn, users, profiles, reg, fav>>

Next ==
    \/ \E s \in Slots : CheckCache(s)
    \/ \E s \in Slots : Fetch(s)
    \/ \E s \in Slots : GetMovie(s)
    \/ \E s \in Slots : CreateMovie(s)
    \/ \E s \in Slots : SetCache(s)
    \/ \E s \in Slots : Deliver(s)
    \/ \E key \in DOMAIN cache : TimePasses(key)

Spec == Init /\ [][Next]_vars

\* Two requests of one query class in flight at once, each with its own
\* worker; upstream results are one item long, two descriptions of one id.
InitConc ==
    /\ cache = <<>>
    /\ store = <<>>
    /\ req = [s \in Slots |-> Idle]
    /\ scn \in Scenarios(Slots, {{ItemA(1), ItemB(1)}}, 1)
    /\ NoAccounts

SpecConc == InitConc /\ [][Next]_vars

----------------------------------------------------------------------------
(* A server that has been running: the Movie table holds external id 1     *)
(* already, and an entry whose timeout has passed stays in the cache,      *)
(* marked expired, until it is set again.  Upstream results are one item   *)
(* long.                                                                   *)

\* the timeout of an entry passes; the entry stays until the key is used
Expire(key) ==
    /\ key \in DOMAIN cache
    /\ ~cache[key].expired
    /\ cache' = [cache EXCEPT ![key].expired = TRUE]
    /\ UNCHANGED <<store, req, scn, users, profiles, reg, fav>>

\* the Movie table after ItemA(1) was stored
StoredA == <<NewRow(<<>>, 1, normalize_movie(ItemA(1)).defaults)>>

InitWarm ==
    /\ cache = <<>>
    /\ store = StoredA
    /\ req = [s \in Slots |-> Idle]
    /\ scn \in Scenarios({1}, {{ItemB(1), ItemA(2)}}, 1)
    /\ NoAccounts

NextWarm ==
    \/ CheckCache(1)
    \/ Fetch(1)
    \/ GetMovie(1)
    \/ CreateMovie(1)
    \/ SetCache(1)
    \/ Deliver(1)
    \/ \E key \in DOMAIN cache : Expire(key)

SpecWarm == InitWarm /\ [][NextWarm]_vars

----------------------------------------------------------------------------
(* toggle_favorite_movie, a step per database query.  The view runs in no  *)
(* transaction, so the steps of two requests interleave.                   *)

\* is the movie among the favourites of the user's profile
is_favorite(ps, user, movie_id) == user \in DOMAIN ps /\ movie_id \in ps[user]

\* user_profile.favorite_movies.remove(movie): deleting an absent link
\* deletes nothing
favorites_remove(ps, user, movie_id) ==
    [ps EXCEPT ![user] = @ \ {movie_id}]

\* user_profile.favorite_movies.add(movie): a link already there is kept
favorites_add(ps, user, movie_id) ==
    [ps EXCEPT ![user] = @ \cup {movie_id}]

\* the request arrives: request.user is an authenticated user, movie_id is
\* the integer of the path
StartToggle(s) ==
    /\ fav[s].pc = "idle"
    /\ \E user \in users, movie_id \in MovieIds :
        fav' = [fav EXCEPT ![s] =
                    [NoToggle EXCEPT
                        !.pc = "movie", !.user = user, !.movie_id = movie_id,
                        !.order = 1 + Cardinality({t \in Slots : fav[t].pc /= "idle"}),
                        !.before = is_favorite(profiles, user, movie_id)]]
    /\ UNCHANGED <<cache, store, req, scn, users, profiles, reg>>

\* Movie.objects.get(tmdb_id=movie_id)
ToggleGetMovie(s) ==
    /\ fav[s].pc = "movie"
    /\ fav' = [fav EXCEPT ![s] =
                  IF Matching(store, fav[s].movie_id) = {}
                  THEN [@ EXCEPT !.pc = "done", !.status = 404]
                  ELSE [@ EXCEPT !.pc = "profile"]]
    /\ UNCHANGED <<cache, store, req, scn, users, profiles, reg>>

\* UserProfile.objects.get(user=request.user)
ToggleGetProfile(s) ==
    /\ fav[s].pc = "profile"
    /\ fav' = [fav EXCEPT ![s] =
                  IF fav[s].user \notin DOMAIN profiles
                  THEN [@ EXCEPT !.pc = "done", !.status = 404]
                  ELSE [@ EXCEPT !.pc = "read"]]
    /\ UNCHANGED <<cache, store, req, scn, users, profiles, reg>>

\* movie in user_profile.favorite_movies.all()
ToggleRead(s) ==
    /\ fav[s].pc = "read"
    /\ fav' = [fav EXCEPT ![s] =
                  [@ EXCEPT !.pc = "write",
                            !.member = is_favorite(profiles, fav[s].user,
                                                   fav[s].movie_id)]]
    /\ UNCHANGED <<cache, store, req, scn, users, profiles, reg>>

\* the branch taken on what was read, and the response
ToggleWrite(s) ==
    /\ fav[s].pc = "write"
    /\ profiles' = IF fav[s].member
                   THEN favorites_remove(profiles, fav[s].user, fav[s].movie_id)
                   ELSE favorites_add(profiles, fav[s].user, fav[s].movie_id)
    /\ fav' = [fav EXCEPT ![s] =
                  [@ EXCEPT !.pc = "done", !.status = 200,
                            !.action = IF fav[s].member THEN "removed"
                                                        ELSE "added"]]
    /\ UNCHANGED <<cache, store, req, scn, users, reg>>

\* a stored movie, two users of whom the first has a profile, and the movie
\* among its favourites or not
InitFav ==
    /\ cache = <<>>
    /\ store = StoredA
    /\ req = [s \in Slots |-> Idle]
    /\ scn = [cls |-> "", slots |-> Slots, items |-> {}, n |-> 0, inputs |-> {}]
    /\ users = {"u1", "u2"}
    /\ profiles \in {("u1" :> {}), ("u1" :> {1})}
    /\ reg = NoRegistration
    /\ fav = [s \in Slots |-> NoToggle]

NextFav ==
    \E s \in Slots :
        \/ StartToggle(s)
        \/ ToggleGetMovie(s)
        \/ ToggleGetProfile(s)
        \/ ToggleRead(s)
        \/ ToggleWrite(s)

SpecFav == InitFav /\ [][NextFav]_vars

----------------------------------------------------------------------------
(* Search requests whose query or page contains the text "_page_", which   *)
(* the cache key puts between the two.  Upstream results are one item.     *)

PageMark == "_page_"

KeyInputs ==
    {[q |-> <<"a", PageMark, "1">>, page |-> JStr(<<"2">>), movie_id |-> 0],
     [q |-> <<"a">>, page |-> JStr(<<"1", PageMark, "2">>), movie_id |-> 0],
     [q |-> <<PageMark, "1">>, page |-> JStr(<<"2">>), movie_id |-> 0],
     [q |-> <<>>, page |-> JStr(<<"1", PageMark, "2">>), movie_id |-> 0],
     [q |-> <<"a">>, page |-> JNum(1), movie_id |-> 0]}

InitKeys ==
    /\ cache = <<>>
    /\ store = <<>>
    /\ req = [s \in Slots |-> Idle]
    /\ scn = [cls |-> "search", slots |-> {1}, items |-> {ItemA(1)},
               n |-> 1, inputs |-> KeyInputs]
    /\ NoAccounts

SpecKeys == InitKeys /\ [][NextWarm]_vars

----------------------------------------------------------------------------
(* A worker runs the view it has started to its response: the upstream     *)
(* call returns or times out after 30 s and the database calls return.     *)
(* Result lists are up to two items, usable and unusable ones.             *)

InitLive ==
    /\ cache = <<>>
    /\ store = <<>>
    /\ req = [s \in Slots |-> Idle]
    /\ scn \in Scenarios({1}, {{ItemPlain(1), ItemNoId, ItemNumber}}, 2)
    /\ NoAccounts

NextLive ==
    \/ CheckCache(1)
    \/ Fetch(1)
    \/ GetMovie(1)
    \/ CreateMovie(1)
    \/ SetCache(1)
    \/ Deliver(1)
    \/ \E key \in DOMAIN cache : TimePasses(key)

SpecLive ==
    /\ InitLive
    /\ [][NextLive]_vars
    /\ WF_vars(Fetch(1))
    /\ WF_vars(GetMovie(1))
    /\ WF_vars(CreateMovie(1))
    /\ WF_vars(SetCache(1))

----------------------------------------------------------------------------
(* get_or_create_movie on one item of any shape: the behaviour starts with *)
(* a request of the popular view that has fetched a one-item result list,  *)
(* and the Movie table empty or holding external id 1 already.             *)

Field(k, values) == {<<>>} \cup {k :> v : v \in values}

NormItems ==
    {JObj(id @@ title @@ original_title @@ release_date @@ genres @@ genre_ids @@ votes) :
        id \in Field("id", {JNum(1), JNum(2), JNull}),
        title \in Field("title", {JNull, JStr(<<>>), JStr(<<"A">>), JNum(5)}),
        original_title \in Field("original_title", {JNull, JStr(<<>>), JStr(<<"B">>)}),
        release_date \in Field("release_date",
            {JNull, JStr(<<>>), JStr(<<" ">>), JStr(ValidDate), JStr(InvalidDate), JNum(2024)}),
        genres \in Field("genres",
            {JList(<<>>),
             JList(<<JObj([id |-> JNum(28), name |-> JStr(<<"G">>)]), JNum(3),
                     JObj([id |-> JNum(12)]),
                     JObj([id |-> JNum(35), name |-> JStr(<<"H">>)])>>),
             JNum(4)}),
        genre_ids \in Field("genre_ids", {JList(<<JNum(28), JNum(12)>>)}),
        votes \in {<<>>,
                   [vote_average |-> JNull, vote_count |-> JNull],
                   [vote_average |-> JStr(<<"8", ".", "5">>), vote_count |-> JStr(<<"1", "2">>)],
                   [vote_average |-> JStr(<<"n">>), vote_count |-> JList(<<>>)]}}

InitNorm ==
    /\ cache = <<>>
    /\ store \in {<<>>, StoredA}
    /\ scn = [cls |-> "popular", slots |-> {1}, items |-> {}, n |-> 1,
               inputs |-> Inputs("popular")]
    /\ NoAccounts
    /\ \E item \in NormItems :
        req = [s \in Slots |->
                IF s = 1
                THEN after_fetch([Idle EXCEPT !.cls = "popular",
                                              !.key = cache_key("popular", NoParams),
                                              !.upstream = "ok",
                                              !.calls = 1,
                                              !.data = ResultsBody(<<item>>)])
                ELSE Idle]

NextNorm == GetMovie(1) \/ CreateMovie(1)

SpecNorm == InitNorm /\ [][NextNorm]_vars

----------------------------------------------------------------------------
(* The properties checked *)

Last(q) == q[Len(q)]

\* the request called upstream and got a body with a results list
FetchedList(r) ==
    /\ r.cls \in ListClasses
    /\ r.calls = 1
    /\ r.upstream = "ok"
    /\ HasResults(r.data)

\* get_or_create_movie can return a movie for the item
ItemOk(item) == normalize_movie(item).tag = "lookup"

OkItems(items) == SelectSeq(items, ItemOk)

\* the external ids of the items get_or_create_movie returns a movie for
OkIds(items) == [j \in 1..Len(OkItems(items)) |-> normalize_movie(OkItems(items)[j]).tmdb_id]

\* the external ids of a serialized result list
ResultIds(movies) == [j \in 1..Len(movies) |-> movies[j].obj["tmdb_id"].num]

\* the result list of a cache payload: the bare list of the trending view,
\* the results member of the paginated views
PayloadResults(payload) ==
    IF IsList(payload) THEN payload.list ELSE payload.obj["results"].list

IsListPayload(payload) ==
    IsList(payload) \/ (IsObj(payload) /\ "results" \in DOMAIN payload.obj)

\* C1: a request served from the cache gets the body that the request which
\* wrote the entry was answered with, and calls upstream not at all.
C1_RepeatGetsFirstPayload ==
    \A s \in Slots :
        (req[s].pc = "done" /\ req[s].hit /\ req[s].key \in DOMAIN cache)
            => /\ req[s].body = cache[req[s].key].first_response
               /\ req[s].calls = 0

\* C2: no cache entry is an error body, and no cached result list is empty.
C2_NoErrorNoEmptyListCached ==
    \A k \in DOMAIN cache :
        LET payload == cache[k].payload
        IN  /\ ~(IsObj(payload) /\ "error" \in DOMAIN payload.obj)
            /\ IsListPayload(payload) => Len(PayloadResults(payload)) > 0

\* C3: a request whose upstream call failed, or whose list body has no
\* results collection, is answered with 503.
C3_UpstreamFailureIs503 ==
    \A s \in Slots :
        LET r == req[s]
        IN  (/\ r.pc = "done"
             /\ r.calls = 1
             /\ \/ r.upstream \in FetchFailures
                \/ r.cls \in ListClasses /\ ~HasResults(r.data))
                => r.status = 503

\* C4: a request whose upstream call failed has written nothing to the
\* cache: it made no cache.set, and the key it missed is still absent.
C4_FailedFetchLeavesCache ==
    \A s \in Slots :
        req[s].upstream \in FetchFailures
            => /\ req[s].sets = 0
               /\ req[s].key \notin DOMAIN cache

C4_Witness ==
    \E s \in Slots :
        /\ req[s].pc = "done"
        /\ req[s].upstream = "Timeout"
        /\ req[s].calls = 1
        /\ req[s].status = 503

\* C5: a list request whose upstream items are partly unusable succeeds,
\* and its result list is the usable items in upstream order.
C5_PartialFailureSucceeds ==
    \A s \in Slots :
        LET r == req[s]
        IN  (/\ r.pc = "done"
             /\ FetchedList(r)
             /\ Len(OkItems(Results(r))) > 0)
                => /\ r.status = 200
                   /\ ResultIds(r.movies_data) = OkIds(Results(r))

\* C6: a list request whose upstream items are all unusable is answered
\* with a server error.
C6_AllItemsFailedIsError ==
    \A s \in Slots :
        LET r == req[s]
        IN  (/\ r.pc = "done"
             /\ FetchedList(r)
             /\ Len(Results(r)) > 0
             /\ Len(OkItems(Results(r))) = 0)
                => r.status = 500

\* C7: a list request whose upstream result list is empty is answered
\* with 404.
C7_EmptyResultIs404 ==
    \A s \in Slots :
        LET r == req[s]
        IN  (r.pc = "done" /\ FetchedList(r) /\ Len(Results(r)) = 0) => r.status = 404

\* C8: every step keeps the rows of the Movie table as they are and adds
\* at most rows of new external ids; a movie that get_or_create_movie
\* returns with created=False is a row as it was stored, with the item's id.
C8_OneRecordPerIdFirstWins ==
    [][/\ Len(store') >= Len(store)
       /\ \A i \in 1..Len(store) : store'[i] = store[i]
       /\ \A i, j \in 1..Len(store') :
            i /= j => store'[i].tmdb_id /= store'[j].tmdb_id
       /\ \A s \in Slots :
            (/\ req[s].pc = "items"
             /\ Len(req'[s].made) = Len(req[s].made) + 1
             /\ ~Last(req'[s].made).created)
                => \E i \in 1..Len(store) :
                    /\ store[i].tmdb_id
                            = normalize_movie(Results(req[s])[req[s].idx]).tmdb_id
                    /\ Last(req'[s].movies_data) = MovieSerializer(store[i])]_vars

\* the table holds id 1 as first described (title A), and a request that
\* was given the other description of id 1 got the stored one
C8_Witness ==
    \E s \in Slots :
        /\ req[s].pc = "done"
        /\ req[s].status = 200
        /\ FetchedList(req[s])
        /\ Results(req[s]) = <<ItemB(1)>>
        /\ req[s].made = <<[created |-> FALSE, raced |-> FALSE]>>
        /\ Len(store) = 1
        /\ store[1].title = <<"A">>
        /\ req[s].movies_data = <<MovieSerializer(store[1])>>

\* C9: the Movie table never holds two rows of one external id; a request
\* whose INSERT lost the race gets created=False and the stored row; no two
\* items in flight were both created for one id; and every usable item
\* processed so far has got its movie.
C9_ConcurrentCreateOneWinner ==
    /\ \A i, j \in 1..Len(store) : i /= j => store[i].tmdb_id /= store[j].tmdb_id
    /\ \A s \in Slots : \A j \in 1..Len(req[s].made) :
        req[s].made[j].raced
            => /\ ~req[s].made[j].created
               /\ \E i \in 1..Len(store) : req[s].movies_data[j] = MovieSerializer(store[i])
    /\ \A s, t \in Slots : \A j \in 1..Len(req[s].made) : \A k \in 1..Len(req[t].made) :
        (<<s, j>> /= <<t, k>> /\ req[s].made[j].created /\ req[t].made[k].created)
            => req[s].movies_data[j].obj["tmdb_id"] /= req[t].movies_data[k].obj["tmdb_id"]
    /\ \A s \in Slots :
        (req[s].pc \in {"items", "set", "done"} /\ FetchedList(req[s]) /\ req[s].status /= 500)
            => Len(req[s].made)
                 = Len(OkItems(SubSeq(Results(req[s]), 1,
                                      Min(req[s].idx - 1, Len(Results(req[s]))))))

C9_Witness ==
    \E s, t \in Slots :
        /\ s /= t
        /\ req[s].made = <<[created |-> FALSE, raced |-> TRUE]>>
        /\ req[t].made = <<[created |-> TRUE, raced |-> FALSE]>>
        /\ req[s].movies_data = req[t].movies_data

\* C10: get_or_create_movie returns a movie for every item that has an id.
C10_OnlyMissingIdFails ==
    \A s \in Slots :
        LET r == req[s]
        IN  (/\ r.pc = "set"
             /\ FetchedList(r)
             /\ Len(Results(r)) = 1
             /\ IsObj(Results(r)[1])
             /\ "id" \in DOMAIN Results(r)[1].obj
             /\ IsNum(Results(r)[1].obj["id"]))
                => Len(r.made) = 1

\* a request of a list view that has run get_or_create_movie on the only
\* item of its result list
OneItemDone(r) ==
    /\ r.pc = "set"
    /\ FetchedList(r)
    /\ Len(Results(r)) = 1

\* ... and the call created the row, the last one of the table
OneItemCreated(r) ==
    /\ OneItemDone(r)
    /\ Len(r.made) = 1
    /\ r.made[1].created

\* the item has the key with a string of at least one character
NonEmptyText(item, k) ==
    /\ k \in DOMAIN item.obj
    /\ IsStr(item.obj[k])
    /\ Len(item.obj[k].str) > 0

TitleByFallback(item) ==
    IF NonEmptyText(item, "title") THEN item.obj["title"].str
    ELSE IF NonEmptyText(item, "original_title") THEN item.obj["original_title"].str
    ELSE UnknownTitle

\* C11: the title of a created row is the item's title when that is a
\* non-empty string, else its original_title when that is one, else
\* "Unknown Title".
C11_TitleFallsBackToUnknown ==
    \A s \in Slots :
        OneItemCreated(req[s])
            => Last(store).title = TitleByFallback(Results(req[s])[1])

HasName(g) == IsObj(g) /\ "name" \in DOMAIN g.obj

NamesInOrder(l) ==
    LET named == SelectSeq(l, HasName)
    IN  [j \in 1..Len(named) |-> named[j].obj["name"]]

GenresByShape(item) ==
    IF "genres" \in DOMAIN item.obj /\ IsList(item.obj["genres"])
            /\ Len(item.obj["genres"].list) > 0
    THEN JList(NamesInOrder(item.obj["genres"].list))
    ELSE IF "genre_ids" \in DOMAIN item.obj /\ IsList(item.obj["genre_ids"])
    THEN item.obj["genre_ids"]
    ELSE JList(<<>>)

\* C12: the genres of a created row are the names of the item's genre
\* objects, in order, when it has a non-empty list of them; else its
\* genre_ids list as it is; else the empty list.
C12_GenresObjectsThenIds ==
    \A s \in Slots :
        OneItemCreated(req[s])
            => Last(store).genres = GenresByShape(Results(req[s])[1])

\* a row was created from an item that has both shapes, with the names
C12_Witness ==
    \E s \in Slots :
        /\ OneItemCreated(req[s])
        /\ "genre_ids" \in DOMAIN Results(req[s])[1].obj
        /\ "genres" \in DOMAIN Results(req[s])[1].obj
        /\ Last(store).genres = JList(<<JStr(<<"G">>), JStr(<<"H">>)>>)

WithoutKey(item, k) == JObj([x \in DOMAIN item.obj \ {k} |-> item.obj[x]])

\* release dates that are empty, blank, null or no date of the calendar
UnusableDates == {JNull, JStr(<<>>), JStr(<<" ">>), JStr(InvalidDate)}

HasUnusableDate(item) ==
    /\ IsObj(item)
    /\ "release_date" \in DOMAIN item.obj => item.obj["release_date"] \in UnusableDates

Arrives(s) == req[s].pc = "idle" /\ req'[s].pc /= "idle"

\* the cache holds an entry under the key whose timeout has not passed
Unexpired(key) == key \in DOMAIN cache /\ ~cache[key].expired

\* C14: a request that arrives while the cache holds an unexpired entry
\* under its key is answered with that entry at once: no upstream call, no
\* get_or_create_movie, no cache.set, cache and Movie table as they were.
C14_HitSkipsTheRest ==
    [][\A s \in Slots :
        /\ (Arrives(s) /\ Unexpired(req'[s].key))
                => /\ req'[s].hit
                   /\ req'[s].pc = "done"
                   /\ req'[s].status = 200
                   /\ req'[s].body = cache[req'[s].key].payload
                   /\ cache' = cache
                   /\ store' = store
        /\ req'[s].hit
                => /\ req'[s].calls = 0
                   /\ req'[s].sets = 0
                   /\ req'[s].made = <<>>
                   /\ req'[s].idx = 0]_vars

\* a similar-movies request was answered from the cache
C14_Witness ==
    \E s \in Slots :
        /\ req[s].cls = "similar"
        /\ req[s].pc = "done"
        /\ req[s].hit
        /\ Unexpired(req[s].key)
        /\ req[s].body = cache[req[s].key].payload
        /\ Len(store) > 0

\* C15: a request that arrives when the entry under its key has expired
\* is not answered from the cache: it goes on to the upstream call, and
\* that call is made.
C15_ExpiredEntryIsRefetched ==
    [][\A s \in Slots :
        /\ (/\ Arrives(s)
             /\ req'[s].key \in DOMAIN cache
             /\ cache[req'[s].key].expired)
                => /\ ~req'[s].hit
                   /\ req'[s].pc = "fetch"
        /\ (req[s].pc = "fetch" /\ req'[s] /= req[s])
                => req'[s].calls = req[s].calls + 1]_vars

\* the entry under the key of a request is expired, and the request, which
\* did not write it, has called upstream and is about to set it again
C15_Witness ==
    \E s \in Slots :
        /\ req[s].pc = "set"
        /\ req[s].calls = 1
        /\ req[s].sets = 0
        /\ req[s].key \in DOMAIN cache
        /\ cache[req[s].key].expired

\* the timeout the query classes are to cache with, by the head of the key
TimeoutOfKey(key) ==
    CASE Head(key) \in {"trending_movies", "popular_movies",
                        "top_rated_movies", "upcoming_movies"} -> 3600
      [] Head(key) = "movie_search_" -> 1800
      [] Head(key) = "movie_details_" -> 86400
      [] Head(key) = "movie_credits_" -> 43200
      [] Head(key) = "similar_movies_" -> 21600

\* C16: every cache entry was set with the timeout of its query class.
C16_TimeoutByQueryClass ==
    \A key \in DOMAIN cache : cache[key].timeout = TimeoutOfKey(key)

C16_Witness ==
    \E key \in DOMAIN cache :
        /\ Head(key) = "movie_search_"
        /\ cache[key].timeout = 1800

\* C17: a request that misses goes on to its own upstream call whatever
\* the other requests do, and the cache.set of a request that missed
\* leaves its own payload under the key, whatever was there.
C17_NoSingleFlightLastSetWins ==
    [][\A s \in Slots :
        /\ (/\ Arrives(s)
             /\ req'[s].status /= 400
             /\ ~Unexpired(req'[s].key))
                => req'[s].pc = "fetch"
        /\ (req[s].pc = "set" /\ req'[s].pc = "done")
                => /\ ~req[s].hit
                   /\ req[s].calls = 1
                   /\ req'[s].sets = 1
                   /\ cache'[req[s].key].payload = req[s].payload]_vars

\* two requests of one key have both missed, called upstream and set the
\* cache, with different payloads; the entry is the payload of one of them
C17_Witness ==
    \E s, t \in Slots :
        /\ s /= t
        /\ req[s].pc = "done" /\ req[t].pc = "done"
        /\ req[s].key = req[t].key
        /\ req[s].calls = 1 /\ req[t].calls = 1
        /\ req[s].sets = 1 /\ req[t].sets = 1
        /\ req[s].payload /= req[t].payload
        /\ cache[req[t].key].payload = req[t].payload

\* C18: a request calls upstream at most once, and a failed call ends it.
C18_AtMostOneUpstreamCall ==
    \A s \in Slots :
        /\ req[s].calls <= 1
        /\ req[s].upstream \in FetchFailures
                => /\ req[s].pc = "done"
                   /\ req[s].calls = 1

C18_Witness ==
    \E s \in Slots :
        /\ req[s].pc = "done"
        /\ req[s].upstream = "HTTPError"
        /\ req[s].calls = 1
        /\ req[s].status = 503

\* C19: after a details request that fetched the movie, the Movie table
\* has a row of the requested id.
C19_DetailsStoresMovie ==
    \A s \in Slots :
        (/\ req[s].cls = "details"
         /\ req[s].pc = "done"
         /\ req[s].calls = 1
         /\ req[s].status = 200)
            => \E i \in 1..Len(store) : store[i].tmdb_id = req[s].in.movie_id

\* C20: no step of a credits request changes the Movie table, and the
\* cache.set of a credits request stores, and its response carries, the
\* body that upstream delivered.
C20_CreditsLeaveStoreAndBody ==
    [][scn.cls = "credits"
        => /\ store' = store
           /\ \A s \in Slots :
                (req[s].pc = "set" /\ req'[s].pc = "done")
                    => /\ cache'[req[s].key].payload = req[s].data
                       /\ req'[s].body = req[s].data
                       /\ req'[s].status = 200]_vars

\* a credits request was answered with the upstream body, which is the
\* cache entry, and the Movie table is the one row it was
C20_Witness ==
    \E s \in Slots :
        /\ req[s].cls = "credits"
        /\ req[s].pc = "done"
        /\ req[s].calls = 1
        /\ req[s].body = CreditsBody
        /\ Unexpired(req[s].key)
        /\ cache[req[s].key].payload = CreditsBody
        /\ store = StoredA

\* C21: a search request without a query is answered with 400 at once,
\* even when the cache holds an entry under the key the request would
\* have: it is not served from the cache, calls upstream not at all and
\* leaves cache and Movie table as they were.
C21_MissingQueryIs400 ==
    [][\A s \in Slots :
        (/\ Arrives(s)
         /\ req'[s].cls = "search"
         /\ Len(req'[s].in.q) = 0)
            => /\ req'[s].pc = "done"
               /\ req'[s].status = 400
               /\ ~req'[s].hit
               /\ req'[s].calls = 0
               /\ req'[s].sets = 0
               /\ cache' = cache
               /\ store' = store]_vars

\* a request without a query got 400 while the key made of its parameters
\* has an entry
C21_Witness ==
    \E s \in Slots :
        /\ req[s].pc = "done"
        /\ req[s].status = 400
        /\ Len(req[s].in.q) = 0
        /\ Unexpired(cache_key("search", req[s].in))

\* C22: the trending view answers with 200 or 503.
C22_TrendingIs200Or503 ==
    \A s \in Slots :
        (req[s].pc = "done" /\ req[s].cls = "trending")
            => req[s].status \in {200, 503}

\* C23: the search view answers a request that has a query with 200 or 503.
C23_SearchIs200Or503 ==
    \A s \in Slots :
        (req[s].pc = "done" /\ req[s].cls = "search" /\ Len(req[s].in.q) > 0)
            => req[s].status \in {200, 503}

\* C24: a 200 response of the trending view is a bare list, from the cache
\* or not; a 200 response of the other list views is an object with
\* results, total_results and total_pages.
C24_TrendingIsBareList ==
    \A s \in Slots :
        (req[s].pc = "done" /\ req[s].status = 200 /\ req[s].cls \in ListClasses)
            => IF req[s].cls = "trending"
               THEN IsList(req[s].body)
               ELSE /\ IsObj(req[s].body)
                    /\ {"results", "total_results", "total_pages"}
                            \subseteq DOMAIN req[s].body.obj

\* the URL of an image path, None for no path
UrlOf(base, path) == IF Truthy(path) THEN JStr(base \o path.str) ELSE JNull

\* C25: full_poster_url and full_backdrop_url of every Movie are the base
\* URL followed by the path, and None when there is no path.
C25_FullUrlAccessors ==
    \A i \in 1..Len(store) :
        LET poster == getattr(store[i], "full_poster_url")
            backdrop == getattr(store[i], "full_backdrop_url")
        IN  /\ poster.ok
            /\ poster.value = UrlOf(PosterBase, store[i].poster_path)
            /\ backdrop.ok
            /\ backdrop.value = UrlOf(BackdropBase, store[i].backdrop_path)

\* C26: every user has a profile, once the registration that is creating
\* the user is through.
C26_EveryUserHasProfile ==
    \A username \in users :
        (reg.pc = "saved" /\ reg.username = username) \/ username \in DOMAIN profiles

\* C27: a request that has passed its cache lookup gets its response, and
\* a response is final: the slot is next free for another request.
C27_EveryRequestIsAnswered ==
    (req[1].pc \in {"fetch", "items", "create", "set"}) ~> (req[1].pc = "done")

\* a request ended in the handler of an unexpected exception
C27_Witness ==
    /\ req[1].pc = "done"
    /\ req[1].calls = 1
    /\ req[1].upstream = "ok"
    /\ req[1].status = 500
    /\ req[1].cls = "similar"

\* C28: a search response from the cache names the query and the page of
\* the request it is served to (no entry is under the key of a request of
\* another query or page).
C28_CachedSearchIsOwnQuery ==
    \A s \in Slots :
        (req[s].pc = "done" /\ req[s].hit /\ req[s].cls = "search")
            => /\ req[s].body.obj["query"] = JStr(req[s].in.q)
               /\ int_page(req[s].in.page).ok
               /\ req[s].body.obj["current_page"] = JNum(int_page(req[s].in.page).n)

\* C29: a request answered with an error status has created no Movie.
C29_ErrorLeavesStore ==
    \A s \in Slots :
        (req[s].pc = "done" /\ req[s].status >= 400)
            => \A j \in 1..Len(req[s].made) : ~req[s].made[j].created

\* C30: every value in the cache is truthy, so cache.get of a key that
\* has an unexpired entry is truthy.
C30_CachedValuesAreTruthy ==
    \A key \in DOMAIN cache :
        /\ Truthy(cache[key].payload)
        /\ ~cache[key].expired => Truthy(cache_get(cache, key))

\* the cache holds a list the trending view has set
C30_Witness ==
    \E key \in DOMAIN cache :
        /\ Head(key) = "trending_movies"
        /\ IsList(cache[key].payload)
        /\ Len(cache[key].payload.list) = MaxItems

\* the two slots hold answered toggles of one user and one movie
TwoTogglesDone(s, t) ==
    /\ s /= t
    /\ fav[s].pc = "done" /\ fav[s].status = 200
    /\ fav[t].pc = "done" /\ fav[t].status = 200
    /\ fav[s].user = fav[t].user
    /\ fav[s].movie_id = fav[t].movie_id
    /\ fav[s].order = 1

\* C31: after two completed toggles of one user and one movie, in any
\* interleaving, the movie is among the user's favourites exactly if it was
\* before the two requests, and one request reported 'added', the other
\* 'removed'.
C31_ToggleTwiceRestores ==
    \A s, t \in Slots :
        TwoTogglesDone(s, t)
            => /\ is_favorite(profiles, fav[s].user, fav[s].movie_id) = fav[s].before
               /\ {fav[s].action, fav[t].action} = {"added", "removed"}

====
